---- MODULE Spec2Model ----
(***************************************************************************)
(* Market-breadth pipeline of the dashboard (market_analysis.py, as used   *)
(* by rd_data.py): get_sp500_symbols, calculate_market_breadth_history and *)
(* get_latest_breadth_snapshot.                                            *)
(*                                                                         *)
(* Closing prices are positive integers and a moving average is compared   *)
(* exactly (close * window > window sum).  The percentages stored in the   *)
(* history are IEEE-754 binary64 numbers, modelled bit for bit, because    *)
(* the snapshot converts them back into counts.                            *)
(***************************************************************************)
EXTENDS Integers, Sequences, FiniteSets, TLC

(***************************************************************************)
(* Bounds of the model.                                                    *)
(***************************************************************************)
\* number of rows (trading dates) of a downloaded price table
NumDays == 61
\* number of closes of a ticker that was listed late (between 20 and 59)
ShortObs == 25

(***************************************************************************)
(* IEEE-754 binary64, round to nearest even.  A finite non-zero number is  *)
(* m * 2^e with m a sequence of Precision bits, most significant first.    *)
(***************************************************************************)
Precision == 53

FNaN == [k |-> "nan", m |-> <<>>, e |-> 0]
FInf == [k |-> "inf", m |-> <<>>, e |-> 0]
FZero == [k |-> "zero", m |-> <<>>, e |-> 0]

RECURSIVE IntToBits(_)
IntToBits(n) == IF n = 0 THEN <<>> ELSE Append(IntToBits(n \div 2), n % 2)

RECURSIVE BitsToInt(_)
BitsToInt(b) ==
  IF b = <<>> THEN 0 ELSE 2 * BitsToInt(SubSeq(b, 1, Len(b) - 1)) + b[Len(b)]

StripZeros(b) ==
  IF \A i \in 1..Len(b) : b[i] = 0 THEN <<>>
  ELSE LET first == CHOOSE i \in 1..Len(b) : b[i] = 1 /\ \A j \in 1..(i - 1) : b[j] = 0
       IN SubSeq(b, first, Len(b))

Zeros(n) == [i \in 1..n |-> 0]

\* b + 1 on a bit sequence of fixed length; carry reports overflow
IncBits(b) ==
  IF \A i \in 1..Len(b) : b[i] = 1
  THEN [bits |-> Zeros(Len(b)), carry |-> 1]
  ELSE LET last == CHOOSE i \in 1..Len(b) : b[i] = 0 /\ \A j \in (i + 1)..Len(b) : b[j] = 1
       IN [bits |-> [i \in 1..Len(b) |-> IF i < last THEN b[i] ELSE IF i = last THEN 1 ELSE 0],
           carry |-> 0]

\* the binary64 nearest to bits * 2^exp (+ a non-zero tail when sticky)
RoundNearestEven(bits, exp, sticky) ==
  LET s == StripZeros(bits)
      L == Len(s)
  IN IF L = 0 THEN FZero
     ELSE IF L <= Precision
     THEN [k |-> "num", m |-> s \o Zeros(Precision - L), e |-> exp - (Precision - L)]
     ELSE LET keep == SubSeq(s, 1, Precision)
              guard == s[Precision + 1]
              rest == \E i \in (Precision + 2)..L : s[i] = 1
              up == guard = 1 /\ (rest \/ sticky \/ keep[Precision] = 1)
              inc == IncBits(keep)
          IN IF ~up THEN [k |-> "num", m |-> keep, e |-> exp + (L - Precision)]
             ELSE IF inc.carry = 0
             THEN [k |-> "num", m |-> inc.bits, e |-> exp + (L - Precision)]
             ELSE [k |-> "num", m |-> <<1>> \o Zeros(Precision - 1),
                   e |-> exp + (L - Precision) + 1]

FromInt(n) == RoundNearestEven(IntToBits(n), 0, FALSE)

Reverse(b) == [i \in 1..Len(b) |-> b[Len(b) + 1 - i]]

\* r[lo..hi] * n + carry for bits r given least significant first: the low
\* bits of the product (least significant first) and the carry out
RECURSIVE MulBits(_, _, _, _, _)
MulBits(r, lo, hi, n, carry) ==
  IF lo > hi THEN [p |-> <<>>, c |-> carry]
  ELSE IF lo = hi
  THEN LET t == r[lo] * n + carry IN [p |-> <<t % 2>>, c |-> t \div 2]
  ELSE LET mid == (lo + hi) \div 2
           low == MulBits(r, lo, mid, n, carry)
           high == MulBits(r, mid + 1, hi, n, low.c)
       IN [p |-> low.p \o high.p, c |-> high.c]

\* bits[lo..hi] / n by long division with incoming remainder rem, the left
\* half first because the remainder travels from the first bit down
RECURSIVE DivBits(_, _, _, _, _)
DivBits(b, lo, hi, n, rem) ==
  IF lo > hi THEN [q |-> <<>>, r |-> rem]
  ELSE IF lo = hi
  THEN LET t == 2 * rem + b[lo] IN [q |-> <<t \div n>>, r |-> t % n]
  ELSE LET mid == (lo + hi) \div 2
           left == DivBits(b, lo, mid, n, rem)
           right == DivBits(b, mid + 1, hi, n, left.r)
       IN [q |-> left.q \o right.q, r |-> right.r]

\* float * n for an integer-valued float operand n >= 0
FMul(x, n) ==
  IF x.k = "nan" THEN FNaN
  ELSE IF x.k = "inf" THEN (IF n = 0 THEN FNaN ELSE FInf)
  ELSE IF x.k = "zero" \/ n = 0 THEN FZero
  ELSE LET prod == MulBits(Reverse(x.m), 1, Precision, n, 0)
       IN RoundNearestEven(IntToBits(prod.c) \o Reverse(prod.p), x.e, FALSE)

\* float / n for an integer-valued float operand n >= 0
FDiv(x, n) ==
  IF x.k = "nan" THEN FNaN
  ELSE IF x.k = "inf" THEN FInf
  ELSE IF n = 0 THEN (IF x.k = "zero" THEN FNaN ELSE FInf)
  ELSE IF x.k = "zero" THEN FZero
  ELSE LET num == x.m \o Zeros(Precision + 9)
           d == DivBits(num, 1, Len(num), n, 0)
       IN RoundNearestEven(d.q, x.e - (Precision + 9), d.r # 0)

\* int(x): truncation toward zero of a finite float
FTrunc(x) ==
  IF x.k = "zero" THEN 0
  ELSE IF x.e >= 0 THEN BitsToInt(x.m \o Zeros(x.e))
  ELSE IF Precision + x.e <= 0 THEN 0
  ELSE BitsToInt(SubSeq(x.m, 1, Precision + x.e))

(***************************************************************************)
(* Symbols, rosters and price tables.                                      *)
(***************************************************************************)
\* a symbol is a sequence of characters
SymA == <<"A">>
RawBB == <<"B", ".", "B">>
SymBB == <<"B", "-", "B">>
SymC == <<"C">>
RawUniverse == {SymA, RawBB, SymC}
Tickers == {SymA, SymBB, SymC}

\* symbol.replace('.', '-')
CleanSymbol(symbol) ==
  [i \in 1..Len(symbol) |-> IF symbol[i] = "." THEN "-" ELSE symbol[i]]

\* The Wikipedia page: unreachable/unparsable (ok = FALSE) or a constituent
\* table whose Symbol column lists every constituent once.
Rosters ==
  {[ok |-> FALSE, symbols |-> <<>>]} \cup
  {[ok |-> TRUE, symbols |-> r] :
     r \in {<<>>, <<SymA>>, <<RawBB>>, <<SymA, RawBB>>, <<RawBB, SymA>>,
            <<SymA, RawBB, SymC>>, <<SymC, RawBB, SymA>>}}

\* the body of get_sp500_symbols: [] on any failure, else the cleaned column
FetchSymbols(w) ==
  IF ~w.ok THEN <<>>
  ELSE [i \in 1..Len(w.symbols) |-> CleanSymbol(w.symbols[i])]

\* a missing close (pandas NaN); observed closes are positive
NaN == 0 - 1
IsNa(x) == x = NaN

\* the day a ticker with one missing price misses
GapDay == 30

\* The Close column of one ticker over the rows of the table, by the shape of
\* its price history.
Column(shape, rows) ==
  [d \in 1..rows |->
     CASE shape = "rising" -> 100 + d
       [] shape = "falling" -> 200 - d
       [] shape = "flat" -> 100
       [] shape = "late" -> IF d <= rows - ShortObs THEN NaN ELSE 100 + d
       [] shape = "gap" -> IF d = GapDay THEN NaN ELSE 100 + d]

ShapesOf(t) ==
  CASE t = SymA -> {"rising", "falling", "gap"}
    [] t = SymBB -> {"rising", "falling", "late"}
    [] t = SymC -> {"rising", "falling", "flat"}

\* A price table as yf.download(group_by='ticker') or the CSV cache gives it:
\* two-level columns (ticker, field), of which the model keeps Close; or the
\* column-less pd.DataFrame() ("plain").
MultiTable(shapes, rows) ==
  [kind |-> "multi", rows |-> rows,
   close |-> [t \in DOMAIN shapes |-> Column(shapes[t], rows)]]

PlainEmptyTable == [kind |-> "plain", rows |-> 0, close |-> <<>>]

ShapeChoices == UNION {[cols -> {"rising", "falling", "flat", "late", "gap"}] : cols \in SUBSET Tickers}

Tables ==
  {MultiTable(sh, NumDays) : sh \in {f \in ShapeChoices : \A t \in DOMAIN f : f[t] \in ShapesOf(t)}}
  \cup {MultiTable([t \in cols |-> "rising"], 0) : cols \in {{SymA}, Tickers}}
  \cup {PlainEmptyTable}

(***************************************************************************)
(* calculate_market_breadth_history                                        *)
(***************************************************************************)
Window20 == 20
Window60 == 60

RECURSIVE SumRange(_, _, _)
SumRange(col, lo, hi) ==
  IF lo > hi THEN 0
  ELSE IF lo = hi THEN col[lo]
  ELSE LET mid == (lo + hi) \div 2
       IN SumRange(col, lo, mid) + SumRange(col, mid + 1, hi)

\* col.rolling(window).mean() at row d: the mean of the last `window` rows as
\* the fraction sum / window, NaN unless all of them hold a close
RollingMean(col, window, d) ==
  IF d >= window /\ \A i \in (d - window + 1)..d : ~IsNa(col[i])
  THEN [na |-> FALSE, sum |-> SumRange(col, d - window + 1, d), n |-> window]
  ELSE [na |-> TRUE, sum |-> 0, n |-> window]

\* close_data.rolling(window=window).mean(), for one column
Rolling(col, window) == [d \in 1..Len(col) |-> RollingMean(col, window, d)]

\* the comparison written close >= ma
Above_OrEqual(col, ma, d) ==
  IF ~IsNa(col[d]) /\ ~ma[d].na /\ col[d] * ma[d].n >= ma[d].sum THEN 1 ELSE 0

\* (close > ma).astype(int): a comparison with NaN is False
Above(col, ma, d) ==
  IF ~IsNa(col[d]) /\ ~ma[d].na /\ col[d] * ma[d].n > ma[d].sum THEN 1 ELSE 0

\* eligibility that forgets the 60-day mean: close.notna() alone
Eligible_CloseOnly(col, ma, d) == IF ~IsNa(col[d]) THEN 1 ELSE 0

\* close.notna() & ma_60.notna()
Eligible(col, ma, d) == IF ~IsNa(col[d]) /\ ~ma[d].na THEN 1 ELSE 0

RECURSIVE SumSeq(_, _, _)
SumSeq(s, lo, hi) ==
  IF lo > hi THEN 0
  ELSE IF lo = hi THEN s[lo]
  ELSE LET mid == (lo + hi) \div 2
       IN SumSeq(s, lo, mid) + SumSeq(s, mid + 1, hi)

\* the selection left out: every column of the table, whatever the list
SelectColumns_AllColumns(table, symbols) ==
  LET cols == DOMAIN table.close
      order == CHOOSE o \in [1..Cardinality(cols) -> cols] :
                 \A t \in cols : \E i \in 1..Cardinality(cols) : o[i] = t
  IN [i \in 1..Cardinality(cols) |-> table.close[order[i]]]

\* close_data[sp500_symbols]: one column per list entry, in list order
SelectColumns(table, symbols) == [i \in 1..Len(symbols) |-> table.close[symbols[i]]]

\* above_df.sum(axis=1)
DailyAboveCount(cols, mas, rows) ==
  [d \in 1..rows |-> SumSeq([i \in 1..Len(cols) |-> Above(cols[i], mas[i], d)], 1, Len(cols))]

\* the row sum that misses the first selected column
DailyEligibleCount_SkipFirst(cols, mas, rows) ==
  [d \in 1..rows |-> SumSeq([i \in 1..Len(cols) |-> Eligible(cols[i], mas[i], d)], 2, Len(cols))]

\* (close_data.notna() & ma_60.notna()).sum(axis=1)
DailyEligibleCount(cols, mas, rows) ==
  [d \in 1..rows |-> SumSeq([i \in 1..Len(cols) |-> Eligible(cols[i], mas[i], d)], 1, Len(cols))]

\* (count / eligible) * 100 on int64 series: float64, x/0 = inf, 0/0 = NaN
Percentage(count, eligible) == FMul(FDiv(FromInt(count), eligible), 100)

\* the frame without .dropna(): one row per date of the table
BreadthFrame_NoDropna(c20, c60, elig, rows) ==
  [d \in 1..rows |->
     [date |-> d,
      b20 |-> Percentage(c20[d], elig[d]),
      b60 |-> Percentage(c60[d], elig[d]),
      eligible |-> elig[d]]]

\* pd.DataFrame({...}).dropna(): the rows without a NaN cell, in date order
BreadthFrame(c20, c60, elig, rows) ==
  LET all == [d \in 1..rows |->
                [date |-> d,
                 b20 |-> Percentage(c20[d], elig[d]),
                 b60 |-> Percentage(c60[d], elig[d]),
                 eligible |-> elig[d]]]
      keep(r) == r.b20.k # "nan" /\ r.b60.k # "nan"
  IN SelectSeq(all, keep)

\* lines 155-185 as a function of the table and the symbol list
HistoryOf(table, symbols) ==
  LET cols == SelectColumns(table, symbols)
      m20 == [i \in 1..Len(cols) |-> Rolling(cols[i], Window20)]
      m60 == [i \in 1..Len(cols) |-> Rolling(cols[i], Window60)]
      c20 == DailyAboveCount(cols, m20, table.rows)
      c60 == DailyAboveCount(cols, m60, table.rows)
      elig == DailyEligibleCount(cols, m60, table.rows)
  IN BreadthFrame(c20, c60, elig, table.rows)

(***************************************************************************)
(* get_latest_breadth_snapshot                                             *)
(***************************************************************************)
\* Python values of the snapshot dict: a str, an int or a float
Str(x) == [t |-> "str", v |-> x]
Int_(x) == [t |-> "int", v |-> x]
Float(x) == [t |-> "float", v |-> x]

\* the dict returned for an empty history, also rd_data's default
SentinelSnapshot ==
  [eligible_total |-> Str("N/A"),
   count20 |-> Str("N/A"), percentage20 |-> Int_(0),
   count60 |-> Str("N/A"), percentage60 |-> Int_(0)]

\* int(pct / 100 * total)
CountFromPercentage(pct, total) == FTrunc(FMul(FDiv(pct, 100), total))

LatestSnapshot(history) ==
  LET latest == history[Len(history)]
      total == latest.eligible
  IN [eligible_total |-> Int_(total),
      percentage20 |-> Float(latest.b20),
      percentage60 |-> Float(latest.b60),
      count20 |-> Int_(CountFromPercentage(latest.b20, total)),
      count60 |-> Int_(CountFromPercentage(latest.b60, total))]

(***************************************************************************)
(* State                                                                   *)
(***************************************************************************)
VARIABLES
  wiki,                 \* what the Wikipedia page serves
  symCache,             \* st.cache_data entry of get_sp500_symbols
  stock_data,           \* the price table handed to the calculation
  sp500_symbols,        \* calculate_market_breadth_history's symbol list
  ma_20,                \* its 20-day means, per selected column and date
  ma_60,                \* its 60-day means, per selected column and date
  daily_20ma_count,     \* its per-date count of closes above the 20-day mean
  daily_60ma_count,     \* its per-date count of closes above the 60-day mean
  daily_eligible_count, \* its per-date eligible count
  breadth_history,      \* the history last returned
  breadth_data,         \* the snapshot last returned
  raised,               \* the exception that ended the script, or "none"
  pc,                   \* the call that returned last
  spy500_file,          \* the price cache file spy500_data.csv
  clock,                \* datetime.now().timestamp(), in seconds
  yf_download,          \* what yf.download did in the last get_sp500_stock_data
  treasury_file,        \* daily-treasury-rates.csv
  temp_file,            \* whether temp_download.csv exists
  previous_file,        \* daily-treasury-rates.csv as the last run found it
  response,             \* what the treasury server answered to the last run
  updated               \* what the last download_and_update_data returned

\* the state of the breadth calculation, of the price download, of the
\* treasury update
breadthVars == <<wiki, symCache, stock_data, sp500_symbols, ma_20, ma_60, daily_20ma_count,
                 daily_60ma_count, daily_eligible_count, breadth_history,
                 breadth_data, raised, pc>>
priceVars == <<spy500_file, clock, yf_download>>
treasuryVars == <<treasury_file, temp_file, previous_file, response, updated>>

vars == <<breadthVars, priceVars, treasuryVars>>

\* a price table that is None
NoneTable == [kind |-> "none", rows |-> 0, close |-> <<>>]

\* no cache file on disk
NoPriceFile == [exists |-> FALSE, mtime |-> 0, loadable |-> FALSE, data |-> NoneTable]

\* no treasury file on disk
NoTreasuryFile == [exists |-> FALSE, kind |-> "none", rows |-> <<>>]

\* nothing has run yet in the working directory of get_sp500_stock_data
PriceIdle ==
  /\ spy500_file = NoPriceFile
  /\ clock = 0
  /\ yf_download = "none"

\* nothing has run yet in the working directory of data_update.py
TreasuryIdle ==
  /\ treasury_file = NoTreasuryFile
  /\ temp_file = FALSE
  /\ previous_file = NoTreasuryFile
  /\ response = [kind |-> "none", rows |-> <<>>]
  /\ updated = "none"

Init ==
  /\ wiki \in Rosters
  /\ symCache = [valid |-> FALSE, value |-> <<>>]
  /\ stock_data \in Tables
  /\ sp500_symbols = <<>>
  /\ ma_20 = <<>>
  /\ ma_60 = <<>>
  /\ daily_20ma_count = <<>>
  /\ daily_60ma_count = <<>>
  /\ daily_eligible_count = <<>>
  /\ breadth_history = <<>>
  /\ breadth_data = SentinelSnapshot
  /\ raised = "none"
  /\ pc = "start"
  /\ PriceIdle
  /\ TreasuryIdle

\* get_sp500_symbols() under st.cache_data: the cached list, else a fetch
CachedSymbols == IF symCache.valid THEN symCache.value ELSE FetchSymbols(wiki)

\* current_sp500_symbols = get_sp500_symbols()
GetSp500Symbols ==
  /\ raised = "none"
  /\ ~symCache.valid
  /\ symCache' = [valid |-> TRUE, value |-> CachedSymbols]
  /\ UNCHANGED <<wiki, stock_data, sp500_symbols, ma_20, ma_60, daily_20ma_count,
                 daily_60ma_count, daily_eligible_count, breadth_history,
                 breadth_data, raised, pc>>
  /\ UNCHANGED <<priceVars, treasuryVars>>

\* close_data.empty: no row or no column
CloseDataEmpty(table) == table.rows = 0 \/ DOMAIN table.close = {}

Raise(exc) ==
  /\ raised' = exc
  /\ UNCHANGED <<ma_20, ma_60, daily_20ma_count, daily_60ma_count,
                 daily_eligible_count, breadth_history, pc>>

ReturnHistory(m20, m60, c20, c60, elig, history) ==
  /\ ma_20' = m20
  /\ ma_60' = m60
  /\ daily_20ma_count' = c20
  /\ daily_60ma_count' = c60
  /\ daily_eligible_count' = elig
  /\ breadth_history' = history
  /\ pc' = "calculated"
  /\ UNCHANGED raised

\* breadth_history = calculate_market_breadth_history(stock_data)
CalculateMarketBreadthHistory ==
  /\ raised = "none"
  /\ symCache' = [valid |-> TRUE, value |-> CachedSymbols]
  /\ sp500_symbols' = CachedSymbols
  /\ IF stock_data.kind = "plain"
     THEN Raise("TypeError")
     ELSE IF CloseDataEmpty(stock_data) \/ CachedSymbols = <<>>
     THEN ReturnHistory(<<>>, <<>>, <<>>, <<>>, <<>>, <<>>)
     ELSE IF \E i \in 1..Len(CachedSymbols) : CachedSymbols[i] \notin DOMAIN stock_data.close
     THEN Raise("KeyError")
     ELSE LET cols == SelectColumns(stock_data, CachedSymbols)
              m20 == [i \in 1..Len(cols) |-> Rolling(cols[i], Window20)]
              m60 == [i \in 1..Len(cols) |-> Rolling(cols[i], Window60)]
              c20 == DailyAboveCount(cols, m20, stock_data.rows)
              c60 == DailyAboveCount(cols, m60, stock_data.rows)
              elig == DailyEligibleCount(cols, m60, stock_data.rows)
          IN ReturnHistory(m20, m60, c20, c60, elig,
                           BreadthFrame(c20, c60, elig, stock_data.rows))
  /\ UNCHANGED <<wiki, stock_data, breadth_data>>
  /\ UNCHANGED <<priceVars, treasuryVars>>

\* breadth_data = get_latest_breadth_snapshot(breadth_history)
GetLatestBreadthSnapshot ==
  /\ raised = "none"
  /\ breadth_data' = IF breadth_history = <<>> THEN SentinelSnapshot
                     ELSE LatestSnapshot(breadth_history)
  /\ pc' = "snapshot"
  /\ UNCHANGED <<wiki, symCache, stock_data, sp500_symbols, ma_20, ma_60,
                 daily_20ma_count, daily_60ma_count, daily_eligible_count,
                 breadth_history, raised>>
  /\ UNCHANGED <<priceVars, treasuryVars>>

Next ==
  \/ GetSp500Symbols
  \/ CalculateMarketBreadthHistory
  \/ GetLatestBreadthSnapshot

Spec == Init /\ [][Next]_vars

(***************************************************************************)
(* Vocabulary of the properties                                            *)
(***************************************************************************)
Range(s) == {s[i] : i \in 1..Len(s)}

\* calculate_market_breadth_history has returned a computed (non-trivial) frame
Computed == ma_60 # <<>>

\* the Close column behind entry i of the symbol list
ColumnOf(i) == stock_data.close[sp500_symbols[i]]

Dates == 1..stock_data.rows

\* the dates up to d on which the column holds a close
ObservedUpTo(col, d) == {j \in 1..d : ~IsNa(col[j])}

\* the n most recent of them
LastObserved(col, d, n) ==
  {j \in ObservedUpTo(col, d) : Cardinality({k \in j..d : ~IsNa(col[k])}) <= n}

RECURSIVE SumOver(_, _, _, _)
SumOver(col, S, lo, hi) ==
  IF lo > hi THEN 0
  ELSE IF lo = hi THEN (IF lo \in S THEN col[lo] ELSE 0)
  ELSE LET mid == (lo + hi) \div 2
       IN SumOver(col, S, lo, mid) + SumOver(col, S, mid + 1, hi)

LatestRow == breadth_history[Len(breadth_history)]

(***************************************************************************)
(* C1..C10                                                                 *)
(***************************************************************************)

\* C1: in every row of the returned history the above-20 count and the
\* above-60 count both lie between 0 and the row's eligible count.
C1_CountsWithinEligible ==
  \A r \in 1..Len(breadth_history) :
    LET d == breadth_history[r].date
    IN /\ 0 <= daily_20ma_count[d] /\ daily_20ma_count[d] <= daily_eligible_count[d]
       /\ 0 <= daily_60ma_count[d] /\ daily_60ma_count[d] <= daily_eligible_count[d]

\* C2: a ticker with fewer than 60 observed closes adds nothing to the
\* above-20, above-60 and eligible counts of any row of the returned history.
C2_ShortHistoryContributesNothing ==
  Computed =>
    \A r \in 1..Len(breadth_history) : \A i \in 1..Len(sp500_symbols) :
      LET d == breadth_history[r].date
          col == ColumnOf(i)
      IN Cardinality(ObservedUpTo(col, stock_data.rows)) < Window60 =>
           /\ Above(col, ma_20[i], d) = 0
           /\ Above(col, ma_60[i], d) = 0
           /\ Eligible(col, ma_60[i], d) = 0

\* C3: every row of the returned history has an eligible count of at least 1
\* and finite percentages; a date without an eligible ticker has no row.
C3_NoZeroEligibleRow ==
  /\ \A r \in 1..Len(breadth_history) :
       /\ breadth_history[r].eligible >= 1
       /\ breadth_history[r].b20.k \in {"num", "zero"}
       /\ breadth_history[r].b60.k \in {"num", "zero"}
  /\ Computed =>
       \A d \in Dates :
         daily_eligible_count[d] = 0 =>
           \A r \in 1..Len(breadth_history) : breadth_history[r].date # d

\* a history was returned although on some date a ticker was above its
\* 20-day mean while no ticker was eligible (count / 0 on that date)
C3_Witness ==
  /\ pc = "calculated"
  /\ Computed
  /\ breadth_history # <<>>
  /\ \E d \in Dates : daily_eligible_count[d] = 0 /\ daily_20ma_count[d] > 0

\* C4: on a date where a ticker has a close and at least N observed closes,
\* its N-day mean is defined and is the mean of its N most recent observed
\* closes, whatever calendar dates it misses in between (N = 20, 60).
C4_MeanOverOwnObservations ==
  Computed =>
    \A i \in 1..Len(sp500_symbols) : \A d \in Dates :
      LET col == ColumnOf(i)
          Holds(ma, n) ==
            (~IsNa(col[d]) /\ Cardinality(ObservedUpTo(col, d)) >= n) =>
              /\ ~ma[d].na
              /\ ma[d].sum = SumOver(col, LastObserved(col, d, n), 1, d)
              /\ ma[d].n = n
      IN Holds(ma_20[i], Window20) /\ Holds(ma_60[i], Window60)

\* C5: the snapshot of a non-empty history reports as counts the numbers of
\* tickers counted above the 20-day and the 60-day mean on the latest date.
C5_SnapshotCountsAreRowCounts ==
  (pc = "snapshot" /\ breadth_history # <<>>) =>
    /\ breadth_data.count20.t = "int"
    /\ breadth_data.count20.v = daily_20ma_count[LatestRow.date]
    /\ breadth_data.count60.t = "int"
    /\ breadth_data.count60.v = daily_60ma_count[LatestRow.date]

\* C6: the snapshot of an empty history marks every count and percentage
\* unavailable; none of its fields is the number zero.
Unavailable(field) == field.t = "str" /\ field.v = "N/A"

C6_SentinelHasNoZero ==
  (pc = "snapshot" /\ breadth_history = <<>>) =>
    /\ Unavailable(breadth_data.eligible_total)
    /\ Unavailable(breadth_data.count20)
    /\ Unavailable(breadth_data.percentage20)
    /\ Unavailable(breadth_data.count60)
    /\ Unavailable(breadth_data.percentage60)

\* C7: with an empty symbol list or an empty price table the calculation
\* raises nothing and returns an empty history.
TableEmpty(table) == table.kind = "plain" \/ CloseDataEmpty(table)

C7_EmptyInputsGiveEmptyHistory ==
  ((pc # "start" \/ raised # "none") /\ (TableEmpty(stock_data) \/ sp500_symbols = <<>>)) =>
    raised = "none" /\ breadth_history = <<>>

\* C8: when the price table lacks a ticker of the symbol list, the
\* calculation raises nothing and returns the history of the tickers present.
C8_AbsentTickerIsSkipped ==
  (stock_data.kind = "multi" /\
   \E i \in 1..Len(sp500_symbols) : sp500_symbols[i] \notin DOMAIN stock_data.close) =>
    raised = "none"

\* C9: only entries of the symbol list are counted: on every date each count
\* is the number of symbol-list entries whose own column qualifies, so a
\* column of the table outside the symbol list adds to no count.
C9_OnlySymbolSetCounted ==
  Computed =>
    /\ Len(ma_20) = Len(sp500_symbols)
    /\ Len(ma_60) = Len(sp500_symbols)
    /\ \A d \in Dates :
         /\ daily_eligible_count[d] =
              Cardinality({i \in 1..Len(sp500_symbols) :
                             ~IsNa(ColumnOf(i)[d]) /\ ~ma_60[i][d].na})
         /\ daily_20ma_count[d] =
              Cardinality({i \in 1..Len(sp500_symbols) :
                             /\ ~IsNa(ColumnOf(i)[d]) /\ ~ma_20[i][d].na
                             /\ ColumnOf(i)[d] * Window20 > ma_20[i][d].sum})
         /\ daily_60ma_count[d] =
              Cardinality({i \in 1..Len(sp500_symbols) :
                             /\ ~IsNa(ColumnOf(i)[d]) /\ ~ma_60[i][d].na
                             /\ ColumnOf(i)[d] * Window60 > ma_60[i][d].sum})
         /\ daily_eligible_count[d] <= Cardinality(Range(sp500_symbols))

\* a history was computed from a table holding an eligible ticker that is
\* not in the symbol list
C9_Witness ==
  /\ pc = "calculated"
  /\ Computed
  /\ breadth_history # <<>>
  /\ \E t \in DOMAIN stock_data.close \ Range(sp500_symbols) :
       /\ ~IsNa(stock_data.close[t][stock_data.rows])
       /\ Cardinality(ObservedUpTo(stock_data.close[t], stock_data.rows)) >= Window60

\* C10: on a table without missing prices the eligible count of every date is
\* the number of symbol-set tickers with a close and at least 60 closes up to
\* that date, and the above-60 count the number of those whose close exceeds
\* the mean of their last 60 closes; two tickers over 61 days, one above and
\* one below its 60-day mean, give eligible 2 and above-60 1 on day 61.
NoMissingPrices(table) ==
  \A t \in DOMAIN table.close : \A d \in 1..table.rows : ~IsNa(table.close[t][d])

EligibleTickers(d) ==
  {t \in Range(sp500_symbols) :
     /\ ~IsNa(stock_data.close[t][d])
     /\ Cardinality(ObservedUpTo(stock_data.close[t], d)) >= Window60}

TwoTickerTable == MultiTable((SymA :> "rising") @@ (SymBB :> "falling"), NumDays)

ExampleDay == Window60 + 1

C10_CountsOnCompleteTable ==
  (Computed /\ NoMissingPrices(stock_data)) =>
    /\ \A d \in Dates :
         /\ daily_eligible_count[d] = Cardinality(EligibleTickers(d))
         /\ daily_60ma_count[d] =
              Cardinality({t \in EligibleTickers(d) :
                 LET col == stock_data.close[t]
                 IN col[d] * Window60 >
                      SumOver(col, LastObserved(col, d, Window60), 1, d)})
    /\ \A r \in 1..Len(breadth_history) :
         breadth_history[r].eligible = Cardinality(EligibleTickers(breadth_history[r].date))
    /\ (stock_data = TwoTickerTable /\ sp500_symbols = <<SymA, SymBB>>) =>
         /\ \E r \in 1..Len(breadth_history) :
              breadth_history[r].date = ExampleDay /\ breadth_history[r].eligible = 2
         /\ daily_60ma_count[ExampleDay] = 1

C10_Witness ==
  /\ pc = "calculated"
  /\ Computed
  /\ stock_data = TwoTickerTable
  /\ sp500_symbols = <<SymA, SymBB>>
  /\ \E r \in 1..Len(breadth_history) : breadth_history[r].date = ExampleDay

(***************************************************************************)
(* C11..C18                                                                *)
(***************************************************************************)

\* C11: a ticker whose close equals its 20-day (60-day) mean on a date is not
\* counted above that mean: each count is at most the number of symbol-list
\* entries whose close differs from their defined mean.
OffMean(i, ma, d) ==
  /\ ~IsNa(ColumnOf(i)[d])
  /\ ~ma[i][d].na
  /\ ColumnOf(i)[d] * ma[i][d].n # ma[i][d].sum

AtMean(i, ma, d) ==
  /\ ~IsNa(ColumnOf(i)[d])
  /\ ~ma[i][d].na
  /\ ColumnOf(i)[d] * ma[i][d].n = ma[i][d].sum

C11_EqualIsNotAbove ==
  Computed =>
    \A d \in Dates :
      /\ daily_20ma_count[d] <=
           Cardinality({i \in 1..Len(sp500_symbols) : OffMean(i, ma_20, d)})
      /\ daily_60ma_count[d] <=
           Cardinality({i \in 1..Len(sp500_symbols) : OffMean(i, ma_60, d)})
      /\ (\A i \in 1..Len(sp500_symbols) : AtMean(i, ma_20, d) \/ ma_20[i][d].na) =>
           daily_20ma_count[d] = 0

\* a history row on a date where a listed ticker closes exactly at both means
C11_Witness ==
  /\ pc = "calculated"
  /\ Computed
  /\ \E r \in 1..Len(breadth_history) : \E i \in 1..Len(sp500_symbols) :
       /\ AtMean(i, ma_20, breadth_history[r].date)
       /\ AtMean(i, ma_60, breadth_history[r].date)

\* C12: the history does not depend on the order of the symbol list: every
\* permutation of the list gives the rows that were returned.
Reorderings(s) ==
  {[i \in 1..Len(s) |-> s[f[i]]] :
     f \in {g \in [1..Len(s) -> 1..Len(s)] : \A j \in 1..Len(s) : \E i \in 1..Len(s) : g[i] = j}}

C12_OrderIndependent ==
  (pc = "calculated" /\ Computed) =>
    \A p \in Reorderings(sp500_symbols) : HistoryOf(stock_data, p) = breadth_history

\* a history computed from two or more tickers with different price shapes
C12_Witness ==
  /\ pc = "calculated"
  /\ Computed
  /\ breadth_history # <<>>
  /\ Len(sp500_symbols) >= 2
  /\ ColumnOf(1) # ColumnOf(Len(sp500_symbols))

(***************************************************************************)
(* The symbol source over time: the 30-day symbol cache expires, the       *)
(* Wikipedia roster changes or fails, and the page may list a class share   *)
(* under both spellings.                                                    *)
(***************************************************************************)
RosterSources ==
  {[ok |-> FALSE, symbols |-> <<>>]} \cup
  {[ok |-> TRUE, symbols |-> r] :
     r \in {<<SymA>>, <<SymA, RawBB>>, <<RawBB, SymBB>>, <<SymA, RawBB, SymBB>>}}

RosterTables ==
  {MultiTable((SymA :> "rising") @@ (SymBB :> s) @@ (SymC :> "falling"), NumDays) :
     s \in {"rising", "late"}}

RosterInit ==
  /\ wiki \in RosterSources
  /\ symCache = [valid |-> FALSE, value |-> <<>>]
  /\ stock_data \in RosterTables
  /\ sp500_symbols = <<>>
  /\ ma_20 = <<>>
  /\ ma_60 = <<>>
  /\ daily_20ma_count = <<>>
  /\ daily_60ma_count = <<>>
  /\ daily_eligible_count = <<>>
  /\ breadth_history = <<>>
  /\ breadth_data = SentinelSnapshot
  /\ raised = "none"
  /\ pc = "start"
  /\ PriceIdle
  /\ TreasuryIdle

\* ttl=timedelta(days=30) runs out: the next call fetches again
CacheExpire ==
  /\ raised = "none"
  /\ symCache.valid
  /\ symCache' = [valid |-> FALSE, value |-> <<>>]
  /\ UNCHANGED <<wiki, stock_data, sp500_symbols, ma_20, ma_60, daily_20ma_count,
                 daily_60ma_count, daily_eligible_count, breadth_history,
                 breadth_data, raised, pc>>
  /\ UNCHANGED <<priceVars, treasuryVars>>

\* the page is edited, or becomes unreachable
RosterChange ==
  /\ raised = "none"
  /\ wiki' \in RosterSources \ {wiki}
  /\ UNCHANGED <<symCache, stock_data, sp500_symbols, ma_20, ma_60, daily_20ma_count,
                 daily_60ma_count, daily_eligible_count, breadth_history,
                 breadth_data, raised, pc>>
  /\ UNCHANGED <<priceVars, treasuryVars>>

RosterNext ==
  \/ GetSp500Symbols
  \/ CalculateMarketBreadthHistory
  \/ GetLatestBreadthSnapshot
  \/ CacheExpire
  \/ RosterChange

RosterSpec == RosterInit /\ [][RosterNext]_vars

\* C13: the list returned by get_sp500_symbols names no ticker twice, so the
\* eligible count of a date never exceeds the number of distinct tickers.
C13_NoTickerTwice ==
  /\ symCache.valid =>
       \A i, j \in 1..Len(symCache.value) :
         symCache.value[i] = symCache.value[j] => i = j
  /\ Computed =>
       \A d \in Dates : daily_eligible_count[d] <= Cardinality(Range(sp500_symbols))

\* C14: a second call of calculate_market_breadth_history with the same price
\* table returns the history the first call returned, whatever happened to
\* the symbol cache and the roster in between.
C14_SameTableSameHistory ==
  [][(CalculateMarketBreadthHistory /\ pc = "calculated" /\ raised' = "none")
       => breadth_history' = breadth_history]_vars

(***************************************************************************)
(* get_latest_breadth_snapshot as a function of any history frame: rows in *)
(* any date order, one row per date.                                       *)
(***************************************************************************)
MaxSnapshotDate == 3
MaxSnapshotEligible == 3

HistoryRows ==
  {[date |-> d, b20 |-> Percentage(c20, e), b60 |-> Percentage(c60, e), eligible |-> e] :
     d \in 1..MaxSnapshotDate,
     e \in 1..MaxSnapshotEligible,
     c20 \in 0..MaxSnapshotEligible,
     c60 \in {0, MaxSnapshotEligible}}

Histories ==
  {<<r>> : r \in HistoryRows} \cup
  UNION {{<<r1, r2>> : r2 \in {r \in HistoryRows : r.date # r1.date}} : r1 \in HistoryRows}

SnapshotInit ==
  /\ wiki = [ok |-> FALSE, symbols |-> <<>>]
  /\ symCache = [valid |-> FALSE, value |-> <<>>]
  /\ stock_data = PlainEmptyTable
  /\ sp500_symbols = <<>>
  /\ ma_20 = <<>>
  /\ ma_60 = <<>>
  /\ daily_20ma_count = <<>>
  /\ daily_60ma_count = <<>>
  /\ daily_eligible_count = <<>>
  /\ breadth_history \in Histories
  /\ breadth_data = SentinelSnapshot
  /\ raised = "none"
  /\ pc = "start"
  /\ PriceIdle
  /\ TreasuryIdle

SnapshotNext == GetLatestBreadthSnapshot

SnapshotSpec == SnapshotInit /\ [][SnapshotNext]_vars

\* C15: the snapshot of a non-empty history reports the eligible count and
\* the two percentages of the row with the greatest date, in whatever order
\* the rows are.
MaxDateRow(history) ==
  history[CHOOSE i \in 1..Len(history) :
            \A j \in 1..Len(history) : history[j].date <= history[i].date]

C15_SnapshotOfMaxDate ==
  (pc = "snapshot" /\ breadth_history # <<>>) =>
    /\ breadth_data.eligible_total = Int_(MaxDateRow(breadth_history).eligible)
    /\ breadth_data.percentage20 = Float(MaxDateRow(breadth_history).b20)
    /\ breadth_data.percentage60 = Float(MaxDateRow(breadth_history).b60)

(***************************************************************************)
(* get_sp500_stock_data: the price table from the CSV cache or yf.download *)
(***************************************************************************)
TTL_SECONDS == 60 * 60 * 4

\* the clock is read every ClockStep seconds, up to MaxClock
ClockStep == 7200
MaxClock == 36000

PriceRosters ==
  {[ok |-> FALSE, symbols |-> <<>>]} \cup
  {[ok |-> TRUE, symbols |-> r] : r \in {<<SymA>>, <<SymA, RawBB>>}}

\* what yf.download can do: raise, or return a table of the requested tickers
DownloadOutcomes == {"raised", "rising", "falling"}

DownloadedTable(symbols, shape) ==
  MultiTable([t \in {symbols[i] : i \in 1..Len(symbols)} |-> shape], NumDays)

\* a file that data.to_csv(FILE_PATH) wrote at time t
SavedFile(data, t) == [exists |-> TRUE, mtime |-> t, loadable |-> TRUE, data |-> data]

\* the working directory at start: no cache file, or one left by an earlier
\* run, which pd.read_csv(header=[0, 1]) may or may not be able to load
PriceFiles ==
  {NoPriceFile} \cup
  {[exists |-> TRUE, mtime |-> 0, loadable |-> l, data |-> DownloadedTable(<<SymA>>, "rising")] :
     l \in BOOLEAN}

StockDataInit ==
  /\ wiki \in PriceRosters
  /\ symCache = [valid |-> FALSE, value |-> <<>>]
  /\ stock_data = NoneTable
  /\ sp500_symbols = <<>>
  /\ ma_20 = <<>>
  /\ ma_60 = <<>>
  /\ daily_20ma_count = <<>>
  /\ daily_60ma_count = <<>>
  /\ daily_eligible_count = <<>>
  /\ breadth_history = <<>>
  /\ breadth_data = SentinelSnapshot
  /\ raised = "none"
  /\ pc = "start"
  /\ spy500_file \in PriceFiles
  /\ clock = 0
  /\ yf_download = "none"
  /\ TreasuryIdle

\* os.path.exists(FILE_PATH) and age_seconds < TTL_SECONDS
CacheFresh == spy500_file.exists /\ clock - spy500_file.mtime < TTL_SECONDS

ReturnStockData(data, file, attempt) ==
  /\ stock_data' = data
  /\ spy500_file' = file
  /\ yf_download' = attempt

\* stock_data = get_sp500_stock_data()
GetSp500StockData ==
  /\ raised = "none"
  /\ symCache' = [valid |-> TRUE, value |-> CachedSymbols]
  /\ IF CachedSymbols = <<>>
     THEN ReturnStockData(NoneTable, spy500_file, "none")
     ELSE IF ~spy500_file.exists
     THEN ReturnStockData(NoneTable, spy500_file, "none")
     ELSE IF CacheFresh
     THEN IF spy500_file.loadable
          THEN ReturnStockData(spy500_file.data, spy500_file, "none")
          ELSE ReturnStockData(NoneTable, spy500_file, "none")
     ELSE \E outcome \in DownloadOutcomes :
            IF outcome = "raised"
            THEN ReturnStockData(NoneTable, spy500_file, "raised")
            ELSE ReturnStockData(DownloadedTable(CachedSymbols, outcome),
                                 SavedFile(DownloadedTable(CachedSymbols, outcome), clock),
                                 "returned")
  /\ pc' = "stock_data"
  /\ UNCHANGED <<wiki, sp500_symbols, ma_20, ma_60, daily_20ma_count, daily_60ma_count,
                 daily_eligible_count, breadth_history, breadth_data, raised, clock>>
  /\ UNCHANGED treasuryVars

\* time passes
Tick ==
  /\ clock + ClockStep <= MaxClock
  /\ clock' = clock + ClockStep
  /\ UNCHANGED <<breadthVars, spy500_file, yf_download, treasuryVars>>

\* the cache file is cut short or edited by hand: it no longer loads
FileDamaged ==
  /\ spy500_file.exists
  /\ spy500_file.loadable
  /\ spy500_file' = [spy500_file EXCEPT !.loadable = FALSE, !.mtime = clock]
  /\ UNCHANGED <<breadthVars, clock, yf_download, treasuryVars>>

StockDataNext == GetSp500StockData \/ Tick \/ FileDamaged

StockDataSpec == StockDataInit /\ [][StockDataNext]_vars

\* C16: a call of get_sp500_stock_data with a symbol list and without a
\* fresh, loadable cache file attempts a download, and when the download
\* returns a table the call saves it to the cache file and returns it.
SymbolsAvailable == CachedSymbols # <<>>

FreshLoadableCache == CacheFresh /\ spy500_file.loadable

C16_DownloadsWithoutFreshCache ==
  [][(GetSp500StockData /\ SymbolsAvailable /\ ~FreshLoadableCache) =>
       /\ yf_download' # "none"
       /\ yf_download' = "returned" =>
            /\ stock_data' # NoneTable
            /\ spy500_file' = SavedFile(stock_data', clock)]_vars

(***************************************************************************)
(* data_update.py: download_and_update_data, run after run                 *)
(***************************************************************************)
MaxDay == 3
MaxRows == 2

\* a cell of the Date column: month/day/year as the server writes it,
\* year-month-day as to_csv writes a datetime, or text that is no date
Mdy(d) == [fmt |-> "mdy", day |-> d]
Iso(d) == [fmt |-> "iso", day |-> d]
BadCell == [fmt |-> "bad", day |-> 0]

SeqsUpTo(S, n) == UNION {[1..k -> S] : k \in 0..n}

\* what requests.get and the body give: an HTTP or connection error, a body
\* that breaks off while it is written to the temp file, an empty body, a
\* body without a Date column, or a CSV with a Date column
Responses ==
  {[kind |-> k, rows |-> <<>>] : k \in {"http_error", "truncated", "empty", "garbage"}} \cup
  {[kind |-> "csv", rows |-> r] :
     r \in SeqsUpTo({Mdy(d) : d \in 1..MaxDay} \cup {BadCell}, MaxRows)}

CsvFile(rows) == [exists |-> TRUE, kind |-> "csv", rows |-> rows]

\* pd.read_csv(f); f['Date'] = pd.to_datetime(f['Date'])
ReadDates(content) ==
  IF content.kind = "empty" THEN [ok |-> FALSE, err |-> "EmptyDataError", days |-> <<>>]
  ELSE IF content.kind # "csv" THEN [ok |-> FALSE, err |-> "KeyError", days |-> <<>>]
  ELSE IF \E i \in 1..Len(content.rows) :
            content.rows[i].fmt = "bad" \/ content.rows[i].fmt # content.rows[1].fmt
  THEN [ok |-> FALSE, err |-> "ValueError", days |-> <<>>]
  ELSE [ok |-> TRUE, err |-> "none",
        days |-> [i \in 1..Len(content.rows) |-> content.rows[i].day]]

\* new_df.to_csv(OUTPUT_FILENAME, index=False)
ToCsv(days) == CsvFile([i \in 1..Len(days) |-> Iso(days[i])])

\* Series.max(): NaT for an empty column
NaT == 0
MaxDate(days) ==
  IF days = <<>> THEN NaT
  ELSE CHOOSE m \in {days[i] : i \in 1..Len(days)} : \A i \in 1..Len(days) : days[i] <= m

\* the comparison that always asks for an overwrite
ShouldUpdate_Always(latest_new_date, latest_existing_date) == TRUE

\* the comparison written latest_new_date >= latest_existing_date
ShouldUpdate_OrEqual(latest_new_date, latest_existing_date) ==
  /\ latest_new_date # NaT
  /\ latest_existing_date # NaT
  /\ latest_new_date >= latest_existing_date

\* latest_new_date > latest_existing_date: False when either is NaT
ShouldUpdate(latest_new_date, latest_existing_date) ==
  /\ latest_new_date # NaT
  /\ latest_existing_date # NaT
  /\ latest_new_date > latest_existing_date

\* how the try block ends: the output file, the return value, and whether
\* temp_download.csv is still there
Returns(file, ret) == [file |-> file, ret |-> ret, temp |-> FALSE]
Except(file, temp) == [file |-> file, ret |-> "False", temp |-> temp]

TryUpdate(file, temp, r) ==
  IF r.kind = "http_error" THEN Except(file, temp)
  ELSE IF r.kind = "truncated" THEN Except(file, TRUE)
  ELSE LET new_df == ReadDates(r) IN
    IF ~new_df.ok THEN Except(file, TRUE)
    ELSE IF ~file.exists THEN Returns(ToCsv(new_df.days), "True")
    ELSE LET existing_df == ReadDates(file) IN
      IF ~existing_df.ok THEN Except(file, TRUE)
      ELSE IF ShouldUpdate(MaxDate(new_df.days), MaxDate(existing_df.days))
      THEN Returns(ToCsv(new_df.days), "True")
      ELSE IF MaxDate(existing_df.days) = NaT
      THEN Except(file, TRUE)
      ELSE Returns(file, "False")

\* finally: if os.path.exists(temp_filename): os.remove(temp_filename)
Finally(temp) == IF temp THEN FALSE ELSE temp

\* the output file a run may find: none, one that is no CSV with dates, one
\* saved by hand from the server, or one an earlier run wrote
TreasuryFiles ==
  {NoTreasuryFile, [exists |-> TRUE, kind |-> "garbage", rows |-> <<>>],
   CsvFile(<<Mdy(1), Mdy(2)>>), CsvFile(<<Iso(2)>>), CsvFile(<<>>)}

TreasuryInit ==
  /\ wiki = [ok |-> FALSE, symbols |-> <<>>]
  /\ symCache = [valid |-> FALSE, value |-> <<>>]
  /\ stock_data = NoneTable
  /\ sp500_symbols = <<>>
  /\ ma_20 = <<>>
  /\ ma_60 = <<>>
  /\ daily_20ma_count = <<>>
  /\ daily_60ma_count = <<>>
  /\ daily_eligible_count = <<>>
  /\ breadth_history = <<>>
  /\ breadth_data = SentinelSnapshot
  /\ raised = "none"
  /\ pc = "start"
  /\ PriceIdle
  /\ treasury_file \in TreasuryFiles
  /\ temp_file \in BOOLEAN
  /\ previous_file = NoTreasuryFile
  /\ response = [kind |-> "none", rows |-> <<>>]
  /\ updated = "none"

\* one run of download_and_update_data()
DownloadAndUpdateData ==
  \E r \in Responses :
    /\ response' = r
    /\ previous_file' = treasury_file
    /\ treasury_file' = TryUpdate(treasury_file, temp_file, r).file
    /\ updated' = TryUpdate(treasury_file, temp_file, r).ret
    /\ temp_file' = Finally(TryUpdate(treasury_file, temp_file, r).temp)
    /\ UNCHANGED <<breadthVars, priceVars>>

TreasuryNext == DownloadAndUpdateData

TreasurySpec == TreasuryInit /\ [][TreasuryNext]_vars

\* the latest date of a file, NaT when it has none that can be read
LatestDate(file) == IF file.exists THEN MaxDate(ReadDates(file).days) ELSE NaT

\* the dates of the last answer of the server, when it has a Date column
DownloadedDays == ReadDates(response).days

LatestDownloaded == MaxDate(DownloadedDays)

StrictlyLater ==
  /\ LatestDownloaded # NaT
  /\ LatestDate(previous_file) # NaT
  /\ LatestDownloaded > LatestDate(previous_file)

MayOverwrite ==
  /\ ReadDates(response).ok
  /\ ~previous_file.exists \/ (ReadDates(previous_file).ok /\ StrictlyLater)

\* C17: a run returns True exactly when it replaced daily-treasury-rates.csv
\* by the downloaded table, which it does only when there was no file or the
\* download's latest date is strictly later than the file's; every other run
\* returns False and leaves the file as it was; no run leaves the temp file.
C17_TrueIffOverwritten ==
  updated # "none" =>
    /\ updated \in {"True", "False"}
    /\ updated = "True" <=> MayOverwrite
    /\ updated = "True" => treasury_file = ToCsv(DownloadedDays)
    /\ updated = "False" => treasury_file = previous_file
    /\ ~temp_file

\* a run that replaced an existing file by a download with a later date
C17_Witness ==
  /\ updated = "True"
  /\ previous_file.exists
  /\ treasury_file = ToCsv(DownloadedDays)
  /\ treasury_file # previous_file

\* C18: once daily-treasury-rates.csv exists with a latest date, no run
\* removes it or lowers its latest date, and a run that returns True raises it.
C18_LatestDateNeverDecreases ==
  (updated # "none" /\ LatestDate(previous_file) # NaT) =>
    /\ treasury_file.exists
    /\ LatestDate(treasury_file) >= LatestDate(previous_file)
    /\ updated = "True" => LatestDate(treasury_file) > LatestDate(previous_file)

\* a run that returned True on a file that had a latest date
C18_Witness ==
  /\ updated = "True"
  /\ LatestDate(previous_file) # NaT
  /\ LatestDate(treasury_file) > LatestDate(previous_file)

====
